---------------------------- MODULE Spec2Model ----------------------------
(***************************************************************************)
(* A model of pybo's GP-based policy (pybo/policies/gppolicy.py): the      *)
(* registry of acquisition functions, the GPPolicy object (constructor,    *)
(* add_data, get_next, get_best) and the acquisition indices gpei, gppi,   *)
(* gpucb and thompson.                                                     *)
(*                                                                         *)
(* Real numbers are fixed-point integers in hundredths (Scale): 0.05 is 5, *)
(* 1.0 is 100.  A variance is the square of a standard deviation that is   *)
(* itself in hundredths, so that its square root is exact.  A point is a   *)
(* tuple of coordinates, a domain a tuple of <<low, high>> pairs.          *)
(***************************************************************************)
EXTENDS Integers, Sequences, FiniteSets, TLC

VARIABLES
    state,      \* "new" | "ready" | "failed": how far GPPolicy.__init__ got
    bounds,     \* self._bounds
    extra,      \* self._extra  (a set of <<keyword, value>> pairs)
    gp,         \* self._gp     (the surrogate)
    priors,     \* self._priors
    acq,        \* self._acq    (the registered constructor's name)
    index,      \* self._index
    ret,        \* what the last call returned or raised
    hist,       \* history of the calls, kept for the properties
    pcA,        \* position of a thread running add_data
    locA,       \* its locals
    pcG,        \* position of a thread running get_next
    locG,       \* its locals
    agp,        \* a surrogate handed directly to an acquisition constructor
    aidx,       \* the index function that constructor returned
    aret        \* what the last call of that index function computed

polvars  == <<state, bounds, extra, gp, priors, acq, index>>
thrvars  == <<pcA, locA, pcG, locG>>
acqvars  == <<agp, aidx, aret>>
vars     == <<state, bounds, extra, gp, priors, acq, index, ret, hist,
              pcA, locA, pcG, locG, agp, aidx, aret>>

-----------------------------------------------------------------------------
(* Bounds of the model and constants of the program. *)

\* fixed-point unit: 1.0 is Scale
Scale == 10 * 10

\* at most this many observations are appended to a surrogate
MaxData == 2

\* at most this many calls of add_data on one policy
MaxCalls == MaxData + 1

\* gppolicy.py:118, the number of hyperparameter samples drawn per add_data
n == 100

\* gppolicy.py:119, the number of samples kept for the ensemble
m == 1

\* an attribute that was never assigned is the empty tuple, an assigned one
\* the one-element tuple of its value
Unset == <<>>

Set(v) == <<v>>

Val(f) == f[1]

\* IEEE not-a-number, a value no computation of the model reaches otherwise
NaN == -(Scale * Scale * Scale)

\* Python's None, where an index function is expected: no members
None == [acqs |-> <<>>, m |-> 0]

-----------------------------------------------------------------------------
(* Arithmetic. *)

Abs(i) == IF i < 0 THEN -i ELSE i

Min2(i, j) == IF i <= j THEN i ELSE j

RECURSIVE SumSeq(_)
SumSeq(s) == IF s = <<>> THEN 0 ELSE Head(s) + SumSeq(Tail(s))

\* the largest r in lo..hi with r*r <= v, by bisection
RECURSIVE SqrtIn(_, _, _)
SqrtIn(v, lo, hi) ==
    IF lo >= hi THEN lo
    ELSE LET mid == (lo + hi + 1) \div 2
         IN  IF mid * mid <= v THEN SqrtIn(v, mid, hi) ELSE SqrtIn(v, lo, mid - 1)

\* np.sqrt on a non-negative fixed-point value: the largest r with r*r <= v
\* (the root of a 32-bit value is below 4 * Scale * Scale)
ISqrt(v) == SqrtIn(v, 0, IF v < 4 * Scale * Scale THEN v ELSE 4 * Scale * Scale)

\* np.log(k) for a positive integer k, in hundredths
Ln100(k) ==
    CASE k = 1 -> 0   [] k = 2 -> 69  [] k = 3 -> 110 [] k = 4 -> 139
      [] k = 5 -> 161 [] k = 6 -> 179 [] k = 7 -> 195 [] k = 8 -> 208
      [] OTHER -> 220

\* np.log(np.pi**2 / 3 / delta), in hundredths, for delta in hundredths
LnPi2Over3Delta(delta) ==
    CASE delta = 10 -> 349
      [] delta = 50 -> 188
      [] OTHER      -> 119

\* scipy.stats.norm.cdf, in hundredths, of z in hundredths (tabulated by halves)
NormCdf(z) ==
    CASE z < -250 -> 0  [] z < -200 -> 1  [] z < -150 -> 2  [] z < -100 -> 7
      [] z < -50  -> 16 [] z < 0    -> 31 [] z < 50   -> 50 [] z < 100  -> 69
      [] z < 150  -> 84 [] z < 200  -> 93 [] z < 250  -> 98 [] z < 300  -> 99
      [] OTHER    -> 100

\* scipy.stats.norm.pdf, in hundredths, of z in hundredths (tabulated by halves)
NormPdf(z) ==
    LET w == Abs(z)
    IN  CASE w < 50  -> 40 [] w < 100 -> 35 [] w < 150 -> 24 [] w < 200 -> 13
          [] w < 250 -> 5  [] w < 300 -> 2  [] OTHER   -> 0

-----------------------------------------------------------------------------
(* Keyword arguments: a set of <<keyword, value>> pairs, one per keyword. *)

Keys(kw) == { p[1] : p \in kw }

KwGet(kw, key, default) ==
    IF key \in Keys(kw) THEN (CHOOSE p \in kw : p[1] = key)[2] ELSE default

-----------------------------------------------------------------------------
(* The surrogate (pygp.BasicGP), the hyperparameter sampler (pygp.sample)  *)
(* and the posterior sampler (pygp.extra.fourier.FourierSample): external  *)
(* collaborators, modelled by their interfaces.                            *)

\* pygp.priors.Uniform(a, b): its support
Uniform(a, b) == <<a, b>>

\* pygp.BasicGP(sn, sf, ell, kernel=kernel): a surrogate with no data
BasicGP(sn, sf, ell, kernel) ==
    [hyper |-> [sn |-> sn, sf |-> sf, ell |-> ell], kernel |-> kernel,
     X |-> <<>>, y |-> <<>>]

\* gp.ndata
ndata(g) == Len(g.y)

\* gp._kernel.ndim
ndim(g) == Len(g.hyper.ell)

\* gp.add_data(x, y), when it does not raise: the observation is appended
gp_add_data(g, x, y) == [g EXCEPT !.X = Append(@, x), !.y = Append(@, y)]

\* the hyperparameters a sampler's token t stands for, for a d-dimensional
\* kernel: values within the priors' supports
Hyper(t, d) ==
    [sn |-> 10 + 20 * t, sf |-> 100 + 50 * t, ell |-> [j \in 1..d |-> 10 + 30 * t]]

\* gp.copy(h): the same data under the hyperparameters of the token h, sharing
\* nothing
gp_copy(g, h) == [g EXCEPT !.hyper = Hyper(h, ndim(g))]

\* gp.get_max(): the first observation whose y is maximal, as <<x, y>>
gp_get_max(g) ==
    LET i == CHOOSE j \in 1..Len(g.y) :
                 /\ \A k \in 1..Len(g.y) : g.y[k] <= g.y[j]
                 /\ \A k \in 1..(j - 1)  : g.y[k] <  g.y[j]
    IN  <<g.X[i], g.y[i]>>

Dist(p, q) == SumSeq([j \in 1..Len(p) |-> Abs(p[j] - q[j])])

\* gp.posterior(x) at one point, as <<mean, variance>>: the mean is the y of
\* the nearest observation, the standard deviation grows from the noise sn
\* with the distance to it and is sf with no data
posterior(g, x) ==
    IF ndata(g) = 0 THEN <<0, g.hyper.sf * g.hyper.sf>>
    ELSE LET ds == [j \in 1..Len(g.y) |-> Dist(g.X[j], x)]
             i  == CHOOSE j \in 1..Len(ds) :
                       /\ \A k \in 1..Len(ds)  : ds[j] <= ds[k]
                       /\ \A k \in 1..(j - 1) : ds[j] <  ds[k]
             s  == g.hyper.sn + Min2(ds[i] \div 2, g.hyper.sf)
         IN  <<g.y[i], s * s>>

\* the tokens the sampler draws from
HyperTokens == {0, 1}

\* pygp.sample(gp, priors, n): the sequences of n tokens it can return, the
\* tokens alternating from the first
sample(g, pri, cnt) ==
    { [i \in 1..cnt |-> IF i % 2 = 1 THEN first ELSE 1 - first] :
          first \in HyperTokens }

\* fourier.FourierSample(gp, nfeatures): the realizations it can draw, each
\* named by how many standard deviations above the mean it runs
FourierSample(g, nfeatures) == {-1, 1}

-----------------------------------------------------------------------------
(* The registry and the acquisition functions.  A constructor returns a    *)
(* closure: the record of what the index function captured.  The index     *)
(* function reads the captured surrogate when it is called, so it takes    *)
(* that surrogate's state at the call, g, next to the closure c.           *)

\* _register(f): ACQUISITION_FUNCTIONS[f.__name__] = f
register(reg, f) == reg \cup {f}

ACQUISITION_FUNCTIONS ==
    register(register(register(register({}, "gpei"), "gppi"), "gpucb"), "thompson")

Closure(fn, g, fmax, xi, a, b, real) ==
    [fn |-> fn, gp |-> g, fmax |-> fmax, xi |-> xi, a |-> a, b |-> b, real |-> real]

\* fmax = gp.get_max()[1] if (gp.ndata > 0) else 0
Fmax(g) == IF ndata(g) > 0 THEN gp_get_max(g)[2] ELSE 0

gpei(g, xi) == Closure("gpei", g, Fmax(g), xi, 0, 0, 0)

gpei_index(c, g, x) ==
    LET ms == posterior(g, x)
        mu == ms[1]
        s  == ISqrt(ms[2])
        d  == mu - c.fmax - c.xi
    IN  IF s = 0 THEN NaN
        ELSE LET z == (d * Scale) \div s
             IN  (d * NormCdf(z) + s * NormPdf(z)) \div Scale

gppi(g, xi) == Closure("gppi", g, Fmax(g), xi, 0, 0, 0)

\* mu -= fmax + xi; mu /= np.sqrt(s2, out=s2); return mu
gppi_index(c, g, x) ==
    LET ms == posterior(g, x)
        mu == ms[1]
        s  == ISqrt(ms[2])
    IN  IF s = 0 THEN NaN ELSE ((mu - (c.fmax + c.xi)) * Scale) \div s

gpucb(g, delta, xi) ==
    Closure("gpucb", g, 0, xi,
            (xi * 2 * LnPi2Over3Delta(delta)) \div Scale, xi * (4 + ndim(g)), 0)

\* a slip: beta from the ndata the surrogate had when the index was built
gpucb_beta_at_construction(c, g) == c.a + (c.b * Ln100(ndata(c.gp) + 1)) \div Scale

\* beta = a + b * np.log(gp.ndata+1)
gpucb_beta(c, g) == c.a + (c.b * Ln100(ndata(g) + 1)) \div Scale

\* return mu + np.sqrt(beta*s2)
gpucb_index(c, g, x) ==
    LET ms   == posterior(g, x)
        mu   == ms[1]
        s2   == ms[2]
        beta == gpucb_beta(c, g)
    IN  IF beta < 0 THEN NaN ELSE mu + ISqrt((beta * s2) \div Scale)

\* thompson(gp, nfeatures): the closures FourierSample can return
thompson(g, nfeatures) ==
    { Closure("thompson", g, 0, 0, 0, 0, r) : r \in FourierSample(g, nfeatures) }

thompson_index(c, g, x) ==
    LET ms == posterior(g, x) IN ms[1] + c.real * ISqrt(ms[2])

\* the keyword parameters of each constructor
Params(fn) ==
    CASE fn = "gpei"     -> {"xi"}
      [] fn = "gppi"     -> {"xi"}
      [] fn = "gpucb"    -> {"delta", "xi"}
      [] fn = "thompson" -> {"nfeatures"}

\* fn(g, **kw) raises TypeError on a keyword fn does not take
Takes(fn, kw) == Keys(kw) \subseteq Params(fn)

\* fn(g, **kw): the closures the call can return
Construct(fn, g, kw) ==
    CASE fn = "gpei"     -> { gpei(g, KwGet(kw, "xi", 0)) }
      [] fn = "gppi"     -> { gppi(g, KwGet(kw, "xi", 5)) }
      [] fn = "gpucb"    -> { gpucb(g, KwGet(kw, "delta", 10), KwGet(kw, "xi", 20)) }
      [] fn = "thompson" -> thompson(g, KwGet(kw, "nfeatures", 250))

\* the index function c called at x, its surrogate being in state g
Call(c, g, x) ==
    CASE c.fn = "gpei"     -> gpei_index(c, g, x)
      [] c.fn = "gppi"     -> gppi_index(c, g, x)
      [] c.fn = "gpucb"    -> gpucb_index(c, g, x)
      [] c.fn = "thompson" -> thompson_index(c, g, x)

-----------------------------------------------------------------------------
(* The box optimizer (pybo/policies/_direct.py, solve_direct): an exact    *)
(* minimizer of the objective over the points of the box it looks at.      *)

\* the points of the box b the optimizer looks at: low, middle and high in
\* every dimension
RECURSIVE Grid(_)
Grid(b) ==
    IF b = <<>> THEN { <<>> }
    ELSE LET lo == Head(b)[1]
             hi == Head(b)[2]
         IN  { <<c>> \o rest : c \in {lo, lo + (hi - lo) \div 2, hi},
                               rest \in Grid(Tail(b)) }

\* solve_direct(f, bounds): the <<x, f(x)>> it can return, f given as its
\* values at the points the optimizer evaluates; an objective that is not a
\* number somewhere orders nothing, and any point may come back
solve_direct(f, b) ==
    LET fs == [p \in Grid(b) |-> f[p]]
        ps == DOMAIN fs
    IN  IF \E p \in ps : fs[p] = NaN
        THEN { <<p, fs[p]>> : p \in ps }
        ELSE { <<p, fs[p]>> : p \in { q \in ps : \A r \in ps : fs[q] <= fs[r] } }

-----------------------------------------------------------------------------
(* GPPolicy. *)

\* hypers[-k:]
LastOf(hs, k) == IF k = 0 THEN hs ELSE SubSeq(hs, Len(hs) - k + 1, Len(hs))

\* [self._acq(self._gp.copy(h), **self._extra) for h in hs]: the lists the
\* comprehension can build
RECURSIVE Acqs(_, _, _, _)
Acqs(a, g, ex, hs) ==
    IF hs = <<>> THEN { <<>> }
    ELSE { <<c>> \o rest : c \in Construct(a, gp_copy(g, Head(hs)), ex),
                           rest \in Acqs(a, g, ex, Tail(hs)) }

\* a slip: hypers[:m], the first samples
KeptFirst(hypers) == SubSeq(hypers, 1, m)

\* hypers[-m:], the samples add_data keeps
Kept(hypers) == LastOf(hypers, m)

\* lambda x: sum(a(x) for a in acqs) / m, as the record of what it captured
Ensemble(acqs) == [acqs |-> acqs, m |-> m]

\* the index function idx called at x
index_call(idx, x) ==
    LET vals == [i \in 1..Len(idx.acqs) |-> Call(idx.acqs[i], idx.acqs[i].gp, x)]
    IN  IF \E i \in 1..Len(vals) : vals[i] = NaN THEN NaN
        ELSE SumSeq(vals) \div idx.m

\* a slip: the index itself, not negated
ObjectiveNotNegated(idx, x) == index_call(idx, x)

\* lambda x: -self._index(x), the objective get_next hands to the optimizer
Objective(idx, x) ==
    LET v == index_call(idx, x) IN IF v = NaN THEN NaN ELSE -v

\* a slip: the half-width, the lower bound not added back
MidpointNoShift(b) == [j \in 1..Len(b) |-> (b[j][2] - b[j][1]) \div 2]

\* xnext = bounds[:,1] - bounds[:,0]; xnext /= 2; xnext += bounds[:,0]
Midpoint(b) == [j \in 1..Len(b) |-> ((b[j][2] - b[j][1]) \div 2) + b[j][1]]

\* what a call leaves in ret: the call, the exception it raised ("" for none),
\* the value it returned, the optimizer call it made, and for add_data the
\* failure injected, the collaborator calls made, the samples drawn and the
\* index held before
NoRet ==
    [op |-> "", exc |-> "", val |-> <<>>, opt |-> <<>>, inj |-> "", steps |-> <<>>,
     hypers |-> <<>>, before |-> <<>>]

\* where an add_data call can be made to fail by a collaborator
Failures == {"none", "append", "sample", "copy", "acq"}

\* a slip: self._index = None first, the index rebuilt from nothing
add_data_reset(g, idx, pri, a, ex, x, y, fail) ==
    LET g1 == gp_add_data(g, x, y)
        Out(gg, ii, exc, steps, hs) ==
            [gp |-> gg, index |-> ii, exc |-> exc, steps |-> steps, hypers |-> hs]
    IN  IF fail = "append"
        THEN { Out(g, Set(None), "Error", <<"gp.add_data">>, <<>>) }
        ELSE IF fail = "sample"
        THEN { Out(g1, Set(None), "Error", <<"gp.add_data", "sample">>, <<>>) }
        ELSE IF fail = "copy"
        THEN { Out(g1, Set(None), "Error", <<"gp.add_data", "sample", "gp.copy">>, hs) :
                   hs \in sample(g1, pri, n) }
        ELSE IF fail = "acq" \/ ~Takes(a, ex)
        THEN { Out(g1, Set(None), IF Takes(a, ex) THEN "Error" ELSE "TypeError",
                   <<"gp.add_data", "sample", "gp.copy", "acq">>, hs) :
                   hs \in sample(g1, pri, n) }
        ELSE UNION { { Out(g1, Set(Ensemble(acqs)), "",
                           <<"gp.add_data", "sample", "gp.copy", "acq">>, hs) :
                           acqs \in Acqs(a, g1, ex, Kept(hs)) } :
                     hs \in sample(g1, pri, n) }

\* add_data(x, y) on a policy holding surrogate g and index idx, with the
\* collaborators failing at fail: the outcomes, each the surrogate and index
\* left behind, the exception raised, the collaborator calls made, in order,
\* and the samples drawn
add_data(g, idx, pri, a, ex, x, y, fail) ==
    LET g1 == gp_add_data(g, x, y)
        Out(gg, ii, exc, steps, hs) ==
            [gp |-> gg, index |-> ii, exc |-> exc, steps |-> steps, hypers |-> hs]
    IN  IF fail = "append"
        THEN { Out(g, idx, "Error", <<"gp.add_data">>, <<>>) }
        ELSE IF fail = "sample"
        THEN { Out(g1, idx, "Error", <<"gp.add_data", "sample">>, <<>>) }
        ELSE IF fail = "copy"
        THEN { Out(g1, idx, "Error", <<"gp.add_data", "sample", "gp.copy">>, hs) :
                   hs \in sample(g1, pri, n) }
        ELSE IF fail = "acq" \/ ~Takes(a, ex)
        THEN { Out(g1, idx, IF Takes(a, ex) THEN "Error" ELSE "TypeError",
                   <<"gp.add_data", "sample", "gp.copy", "acq">>, hs) :
                   hs \in sample(g1, pri, n) }
        ELSE UNION { { Out(g1, Set(Ensemble(acqs)), "",
                           <<"gp.add_data", "sample", "gp.copy", "acq">>, hs) :
                           acqs \in Acqs(a, g1, ex, Kept(hs)) } :
                     hs \in sample(g1, pri, n) }

\* a slip: the latest observation's location
get_best_latest(g) == g.X[Len(g.X)]

\* xmax, _ = self._gp.get_max(); return xmax
get_best(g) == gp_get_max(g)[1]

-----------------------------------------------------------------------------
(* The inputs of the calls. *)

\* the domains a policy is constructed on
Domains == { << <<0, 100>> >>, << <<-100, 100>>, <<0, 200>> >> }

\* what the caller passes as bounds: a 2-d array, or a list of pairs
BoundsKinds == {"ndarray", "list"}

\* the acquisition names a caller asks for
AcqNames == ACQUISITION_FUNCTIONS \cup {"gpxx"}

Kernels == {"Matern3"}

\* the extra keyword arguments a caller gives
Extras ==
    { {}, {<<"xi", -20>>} }

\* the observations <<x, y>> made in a domain: at its middle and at its upper
\* corner
Observations(b) ==
    LET mid == Midpoint(b)
        top == [j \in 1..Len(b) |-> b[j][2]]
    IN  { <<mid, 50>>, <<top, 50>>, <<top, 100>> }

NoHist ==
    [calls |-> 0, appended |-> 0, ok |-> 0, log |-> <<>>, built |-> Unset,
     domain |-> Unset, asked |-> ""]

\* the locals of a thread in add_data: its arguments, the ndata and the index
\* it found when called, and the acquisition list it has built
NoLocA == [x |-> <<>>, y |-> 0, n0 |-> 0, before |-> <<>>, acqs |-> <<>>]

\* the locals of a thread in get_next: the ndata it read, and where the
\* thread in add_data was at that read and at the read of the index
NoLocG == [nd |-> 0, at |-> "", seen |-> <<>>, during |-> ""]

\* what a call of an index function used directly leaves in aret: the
\* function, the point, the score, for gpucb the beta it used, the surrogate's
\* ndata at the call, and the beta of the call before, if there was one
NoAret == [op |-> "", fn |-> "", x |-> <<>>, value |-> 0, beta |-> 0, nd |-> 0,
           prev |-> <<>>]

-----------------------------------------------------------------------------
(* The policy used by one caller, call after call. *)

Init ==
    /\ state = "new"
    /\ bounds = Unset /\ extra = Unset /\ gp = Unset /\ priors = Unset
    /\ acq = Unset /\ index = Unset
    /\ ret = NoRet
    /\ hist = NoHist
    /\ pcA = "idle" /\ locA = NoLocA /\ pcG = "idle" /\ locG = NoLocG
    /\ agp = Unset /\ aidx = Unset /\ aret = NoAret

\* a slip: the registry is looked at after the first assignments
GPPolicy_init_late(b, kind, a, k, ex) ==
    /\ state = "new"
    /\ state' = "failed"
    /\ a \notin ACQUISITION_FUNCTIONS
    /\ ret' = [NoRet EXCEPT !.op = "__init__", !.exc = "RuntimeError"]
    /\ bounds' = Set(b)
    /\ extra' = Set(ex)
    /\ hist' = [hist EXCEPT !.domain = Set(b), !.asked = a]
    /\ UNCHANGED <<gp, priors, acq, index, thrvars, acqvars>>

\* GPPolicy(b, acq=a, kernel=k, **ex), b being passed as an array or a list
GPPolicy_init(b, kind, a, k, ex) ==
    /\ state = "new"
    /\ IF a \notin ACQUISITION_FUNCTIONS
       THEN /\ state' = "failed"
            /\ ret' = [NoRet EXCEPT !.op = "__init__", !.exc = "RuntimeError"]
            /\ UNCHANGED <<bounds, extra, gp, priors, acq, index>>
       ELSE IF kind = "list"
       THEN \* bounds[:,1] on a list raises, after the first two assignments
            /\ state' = "failed"
            /\ ret' = [NoRet EXCEPT !.op = "__init__", !.exc = "TypeError"]
            /\ bounds' = Set(b)
            /\ extra' = Set(ex)
            /\ UNCHANGED <<gp, priors, acq, index>>
       ELSE /\ state' = "ready"
            /\ ret' = [NoRet EXCEPT !.op = "__init__"]
            /\ bounds' = Set(b)
            /\ extra' = Set(ex)
            /\ gp' = Set(BasicGP(50, 100,
                                 [j \in 1..Len(b) |-> (b[j][2] - b[j][1]) \div 10], k))
            /\ priors' = Set([sn  |-> Uniform(1, 100),
                              sf  |-> Uniform(1, 1000),
                              ell |-> Uniform(1, 100)])
            /\ acq' = Set(a)
            /\ index' = Set(None)
    /\ hist' = [hist EXCEPT !.domain = Set(b), !.asked = a]
    /\ UNCHANGED <<thrvars, acqvars>>

\* policy.add_data(x, y), the collaborators failing at fail
AddData(x, y, fail) ==
    /\ state = "ready"
    /\ hist.calls < MaxCalls
    /\ ndata(Val(gp)) < MaxData
    /\ \E o \in add_data(Val(gp), index, Val(priors), Val(acq), Val(extra), x, y, fail) :
           /\ gp' = Set(o.gp)
           /\ index' = o.index
           /\ ret' = [NoRet EXCEPT !.op = "add_data", !.exc = o.exc, !.inj = fail,
                                   !.steps = o.steps, !.hypers = o.hypers,
                                   !.before = index]
           /\ hist' = [hist EXCEPT
                          !.calls    = @ + 1,
                          !.appended = IF fail = "append" THEN @ ELSE @ + 1,
                          !.log      = IF fail = "append" THEN @ ELSE Append(@, <<x, y>>),
                          !.ok       = IF o.exc = "" THEN @ + 1 ELSE @,
                          !.built    = IF o.exc = "" THEN o.index ELSE @]
    /\ UNCHANGED <<state, bounds, extra, priors, acq, thrvars, acqvars>>

\* policy.get_next()
GetNext ==
    /\ state = "ready"
    /\ IF ndata(Val(gp)) = 0
       THEN ret' = [NoRet EXCEPT !.op = "get_next", !.val = Midpoint(Val(bounds))]
       ELSE IF index = Set(None)
       THEN \* the optimizer calls the objective, which calls None
            ret' = [NoRet EXCEPT !.op = "get_next", !.exc = "TypeError",
                                 !.opt = <<[index |-> None, bounds |-> Val(bounds),
                                            out |-> <<>>]>>]
       ELSE \E r \in solve_direct([p \in Grid(Val(bounds)) |-> Objective(Val(index), p)], Val(bounds)) :
                ret' = [NoRet EXCEPT !.op = "get_next", !.val = r[1],
                                     !.opt = <<[index |-> Val(index),
                                                bounds |-> Val(bounds), out |-> r]>>]
    /\ UNCHANGED <<polvars, hist, thrvars, acqvars>>

\* policy.get_best()
GetBest ==
    /\ state = "ready"
    /\ IF ndata(Val(gp)) = 0
       THEN ret' = [NoRet EXCEPT !.op = "get_best", !.exc = "Error"]
       ELSE ret' = [NoRet EXCEPT !.op = "get_best", !.val = get_best(Val(gp))]
    /\ UNCHANGED <<polvars, hist, thrvars, acqvars>>

Next ==
    \/ \E b \in Domains, kind \in BoundsKinds, a \in AcqNames, k \in Kernels,
          ex \in Extras : GPPolicy_init(b, kind, a, k, ex)
    \/ /\ state = "ready"
       /\ \E o \in Observations(Val(bounds)), fail \in Failures :
              AddData(o[1], o[2], fail)
    \/ GetNext
    \/ GetBest

Spec == Init /\ [][Next]_vars

-----------------------------------------------------------------------------
(* An acquisition function used directly: a caller builds one index on a   *)
(* surrogate, and goes on calling it while observations are appended to    *)
(* that surrogate.                                                         *)

\* the keyword arguments given to the constructor
AcqExtras == { {}, {<<"xi", -20>>}, {<<"xi", 0>>}, {<<"delta", 50>>} }

\* the points of a d-dimensional space the caller uses
AcqPoints(d) == { [j \in 1..d |-> v] : v \in {0, 100} }

InitAcq ==
    /\ state = "new"
    /\ bounds = Unset /\ extra = Unset /\ gp = Unset /\ priors = Unset
    /\ acq = Unset /\ index = Unset
    /\ ret = NoRet
    /\ hist = NoHist
    /\ pcA = "idle" /\ locA = NoLocA /\ pcG = "idle" /\ locG = NoLocG
    /\ \E d \in {1, 2} : agp = Set(BasicGP(50, 100, [j \in 1..d |-> 10], "Matern3"))
    /\ aidx = Unset
    /\ aret = NoAret

\* index = fn(gp, **kw)
AcqConstruct(fn, kw) ==
    /\ aidx = Unset
    /\ Takes(fn, kw)
    /\ \E c \in Construct(fn, Val(agp), kw) : aidx' = Set(c)
    /\ UNCHANGED <<agp, aret, polvars, ret, hist, thrvars>>

\* gp.add_data(x, y)
AcqAddData(x, y) ==
    /\ ndata(Val(agp)) < MaxData
    /\ agp' = Set(gp_add_data(Val(agp), x, y))
    /\ UNCHANGED <<aidx, aret, polvars, ret, hist, thrvars>>

\* index(x)
AcqCall(x) ==
    /\ aidx # Unset
    /\ aret' = [op    |-> "index",
                fn    |-> Val(aidx).fn,
                x     |-> x,
                value |-> Call(Val(aidx), Val(agp), x),
                beta  |-> IF Val(aidx).fn = "gpucb"
                          THEN gpucb_beta(Val(aidx), Val(agp)) ELSE 0,
                nd    |-> ndata(Val(agp)),
                prev  |-> IF aret.op = "index" THEN <<aret.beta>> ELSE <<>>]
    /\ UNCHANGED <<agp, aidx, polvars, ret, hist, thrvars>>

NextAcq ==
    \/ \E fn \in ACQUISITION_FUNCTIONS, kw \in AcqExtras : AcqConstruct(fn, kw)
    \/ \E x \in AcqPoints(ndim(Val(agp))), y \in {50, 100} : AcqAddData(x, y)
    \/ \E x \in AcqPoints(ndim(Val(agp))) : AcqCall(x)

SpecAcq == InitAcq /\ [][NextAcq]_vars

-----------------------------------------------------------------------------
(* One policy shared by two threads with no lock: one calls add_data, the  *)
(* other get_next.  A step is a statement of the method; the optimizer's   *)
(* run, in which the objective reads self._index, is one step.             *)

InitConc ==
    /\ state = "ready"
    /\ \E b \in Domains, a \in ACQUISITION_FUNCTIONS, ex \in Extras :
           /\ bounds = Set(b)
           /\ extra = Set(ex)
           /\ gp = Set(BasicGP(50, 100,
                               [j \in 1..Len(b) |-> (b[j][2] - b[j][1]) \div 10],
                               "Matern3"))
           /\ acq = Set(a)
           /\ hist = [NoHist EXCEPT !.domain = Set(b), !.asked = a]
    /\ priors = Set([sn  |-> Uniform(1, 100),
                     sf  |-> Uniform(1, 1000),
                     ell |-> Uniform(1, 100)])
    /\ index = Set(None)
    /\ ret = [NoRet EXCEPT !.op = "__init__"]
    /\ pcA = "idle" /\ locA = NoLocA /\ pcG = "idle" /\ locG = NoLocG
    /\ agp = Unset /\ aidx = Unset /\ aret = NoAret

\* a slip that is none: the append and the assignment as one step
AddAppend_atomic ==
    /\ pcA = "append"
    /\ Takes(Val(acq), Val(extra))
    /\ LET g1 == gp_add_data(Val(gp), locA.x, locA.y)
       IN  /\ gp' = Set(g1)
           /\ \E hs \in sample(g1, Val(priors), n) :
                  \E acqs \in Acqs(Val(acq), g1, Val(extra), Kept(hs)) :
                      index' = Set(Ensemble(acqs))
    /\ pcA' = "build"
    /\ hist' = [hist EXCEPT !.appended = @ + 1, !.log = Append(@, <<locA.x, locA.y>>)]
    /\ UNCHANGED <<state, bounds, extra, priors, acq, ret, locA, pcG, locG, acqvars>>

\* a thread calls policy.add_data(x, y)
AddCall(x, y) ==
    /\ pcA = "idle"
    /\ ndata(Val(gp)) < MaxData
    /\ pcA' = "append"
    /\ locA' = [NoLocA EXCEPT !.x = x, !.y = y, !.n0 = ndata(Val(gp)), !.before = index]
    /\ hist' = [hist EXCEPT !.calls = @ + 1]
    /\ UNCHANGED <<polvars, ret, pcG, locG, acqvars>>

\* self._gp.add_data(x, y)
AddAppend ==
    /\ pcA = "append"
    /\ gp' = Set(gp_add_data(Val(gp), locA.x, locA.y))
    /\ pcA' = "build"
    /\ hist' = [hist EXCEPT !.appended = @ + 1, !.log = Append(@, <<locA.x, locA.y>>)]
    /\ UNCHANGED <<state, bounds, extra, priors, acq, index, ret, locA, pcG, locG,
                   acqvars>>

\* hypers = pygp.sample(...); acqs = [...]: raises on an extra keyword the
\* acquisition does not take
AddBuild ==
    /\ pcA = "build"
    /\ IF Takes(Val(acq), Val(extra))
       THEN /\ \E hs \in sample(Val(gp), Val(priors), n) :
                   \E acqs \in Acqs(Val(acq), Val(gp), Val(extra), Kept(hs)) :
                       locA' = [locA EXCEPT !.acqs = acqs]
            /\ pcA' = "assign"
       ELSE /\ pcA' = "idle"
            /\ locA' = NoLocA
    /\ UNCHANGED <<polvars, ret, hist, pcG, locG, acqvars>>

\* self._index = lambda x: sum(a(x) for a in acqs) / m
AddAssign ==
    /\ pcA = "assign"
    /\ index' = Set(Ensemble(locA.acqs))
    /\ pcA' = "idle"
    /\ locA' = NoLocA
    /\ hist' = [hist EXCEPT !.ok = @ + 1, !.built = Set(Ensemble(locA.acqs))]
    /\ UNCHANGED <<state, bounds, extra, gp, priors, acq, ret, pcG, locG, acqvars>>

\* a thread calls policy.get_next()
NextCall ==
    /\ pcG = "idle"
    /\ pcG' = "test"
    /\ locG' = NoLocG
    /\ ret' = NoRet
    /\ UNCHANGED <<polvars, hist, pcA, locA, acqvars>>

\* if self._gp.ndata == 0
NextTest ==
    /\ pcG = "test"
    /\ locG' = [locG EXCEPT !.nd = ndata(Val(gp)), !.at = pcA]
    /\ pcG' = IF ndata(Val(gp)) = 0 THEN "middle" ELSE "solve"
    /\ UNCHANGED <<polvars, ret, hist, pcA, locA, acqvars>>

\* xnext = ...; return xnext
NextMiddle ==
    /\ pcG = "middle"
    /\ ret' = [NoRet EXCEPT !.op = "get_next", !.val = Midpoint(Val(bounds))]
    /\ pcG' = "idle"
    /\ UNCHANGED <<polvars, hist, pcA, locA, locG, acqvars>>

\* xnext, _ = solve_direct(lambda x: -self._index(x), self._bounds); return xnext
NextSolve ==
    /\ pcG = "solve"
    /\ locG' = [locG EXCEPT !.seen = index, !.during = pcA]
    /\ IF index = Set(None)
       THEN ret' = [NoRet EXCEPT !.op = "get_next", !.exc = "TypeError",
                                 !.opt = <<[index |-> None, bounds |-> Val(bounds),
                                            out |-> <<>>]>>]
       ELSE \E r \in solve_direct([p \in Grid(Val(bounds)) |-> Objective(Val(index), p)], Val(bounds)) :
                ret' = [NoRet EXCEPT !.op = "get_next", !.val = r[1],
                                     !.opt = <<[index |-> Val(index),
                                                bounds |-> Val(bounds), out |-> r]>>]
    /\ pcG' = "idle"
    /\ UNCHANGED <<polvars, hist, pcA, locA, acqvars>>

NextConc ==
    \/ \E o \in Observations(Val(bounds)) : AddCall(o[1], o[2])
    \/ AddAppend
    \/ AddBuild
    \/ AddAssign
    \/ NextCall
    \/ NextTest
    \/ NextMiddle
    \/ NextSolve

SpecConc == InitConc /\ [][NextConc]_vars

-----------------------------------------------------------------------------
(* Properties of the acquisition functions. *)

\* C6: the index built by gppi returns a value in [0, 1] (1 is Scale) at every
\* point, the posterior mean being finite and the variance positive.
C6_PiWithinUnitInterval ==
    (aret.op = "index" /\ aret.fn = "gppi") =>
        (0 <= aret.value /\ aret.value <= Scale)

\* C8, as claimed: the beta of a later call of one gpucb index is never
\* smaller than that of an earlier call.
C8_BetaNeverDecreases ==
    (aret.op = "index" /\ aret.fn = "gpucb" /\ aret.prev # <<>>) =>
        aret.prev[1] <= aret.beta

\* C8, amended: each call of one gpucb index uses beta = a + b*ln(ndata+1)
\* with the ndata its surrogate has at the call, a = xi*2*ln(pi^2/(3*delta))
\* and b = xi*(4+dims) being fixed at construction; and when xi >= 0 the beta
\* of a later call is never smaller than that of an earlier call.
C8_BetaFromCurrentData ==
    (aret.op = "index" /\ aret.fn = "gpucb") =>
        LET c == Val(aidx)
        IN  /\ aret.nd <= ndata(Val(agp))
            /\ c.b = c.xi * (4 + Len(Val(agp).hyper.ell))
            /\ aret.beta = c.a + (c.b * Ln100(aret.nd + 1)) \div Scale
            /\ (c.xi >= 0 /\ aret.prev # <<>>) => aret.prev[1] <= aret.beta

C8_Witness ==
    /\ aret.op = "index" /\ aret.fn = "gpucb"
    /\ Val(aidx).xi > 0
    /\ aret.prev # <<>>
    /\ aret.prev[1] < aret.beta
    /\ ndata(Val(aidx).gp) < aret.nd

-----------------------------------------------------------------------------
(* Properties of the policy used call after call. *)

Ready == state = "ready"

Data(g) == [i \in 1..Len(g.y) |-> <<g.X[i], g.y[i]>>]

NoRepeat(steps) ==
    \A i \in 1..Len(steps) : \A j \in 1..Len(steps) : steps[i] = steps[j] => i = j

\* the collaborator call at which an injected failure strikes
StepOf(fail) ==
    CASE fail = "append" -> "gp.add_data"
      [] fail = "sample" -> "sample"
      [] fail = "copy"   -> "gp.copy"
      [] fail = "acq"    -> "acq"

\* C1: get_next() on a policy whose surrogate has no data returns, in every
\* dimension, the point halfway between low and high, raises nothing and
\* makes no optimizer call (so the index, still None, is never called).
C1_MidpointWithoutData ==
    (Ready /\ ret.op = "get_next" /\ ndata(Val(gp)) = 0) =>
        /\ ret.exc = ""
        /\ ret.opt = <<>>
        /\ Len(ret.val) = Len(Val(bounds))
        /\ \A j \in 1..Len(ret.val) :
               2 * (ret.val[j] - Val(bounds)[j][1]) = Val(bounds)[j][2] - Val(bounds)[j][1]

C1_Witness ==
    /\ Ready /\ ret.op = "get_next" /\ ndata(Val(gp)) = 0
    /\ index = Set(None)
    /\ Len(Val(bounds)) = 2
    /\ Val(bounds)[1][1] # 0

\* C2: constructing a policy with an acquisition name that is not one of the
\* four registered raises the unknown-acquisition error (a RuntimeError) and
\* leaves bounds, extra, surrogate, priors, acquisition and index unset.
C2_UnknownAcquisitionRaises ==
    (state # "new" /\ hist.asked \notin {"gpei", "gppi", "gpucb", "thompson"}) =>
        /\ state = "failed"
        /\ ret.op = "__init__" /\ ret.exc = "RuntimeError"
        /\ bounds = Unset /\ extra = Unset /\ gp = Unset
        /\ priors = Unset /\ acq = Unset /\ index = Unset

C2_Witness == state = "failed" /\ hist.asked = "gpxx" /\ ret.exc = "RuntimeError"

\* C3, as claimed: after k calls of add_data the surrogate's dataset has
\* exactly k entries.
C3_EveryCallAppends == Ready => ndata(Val(gp)) = hist.calls

\* C3, amended: the surrogate's dataset is the observations of the add_data
\* calls whose append did not fail, in call order, whatever else was called in
\* between; and get_best() returns the location of an entry whose y is
\* maximal among them.
C3_DatasetIsAppendedCalls ==
    Ready =>
        /\ ndata(Val(gp)) = hist.appended
        /\ Data(Val(gp)) = hist.log
        /\ (ret.op = "get_best" /\ ret.exc = "") =>
               \E i \in 1..Len(hist.log) :
                   /\ hist.log[i][1] = ret.val
                   /\ \A k \in 1..Len(hist.log) : hist.log[k][2] <= hist.log[i][2]

C3_Witness ==
    /\ Ready /\ ret.op = "get_best" /\ ret.exc = ""
    /\ hist.calls > hist.appended
    /\ Len(hist.log) = 2
    /\ hist.log[1][2] > hist.log[2][2]

\* C4, as claimed: with failing add_data calls included, a surrogate with data
\* implies a built index.
C4_DataImpliesIndex == (Ready /\ ndata(Val(gp)) > 0) => index # Set(None)

\* C4, amended: once an add_data call has returned without raising, the
\* surrogate has data, the index is built and get_next() does not find it
\* unset; as long as none has, the index is None, and get_next() on a
\* surrogate with data raises.
C4_IndexBuiltOnceAdded ==
    Ready =>
        /\ hist.ok > 0 => (ndata(Val(gp)) > 0 /\ index # Set(None))
        /\ hist.ok = 0 => index = Set(None)
        /\ (ret.op = "get_next" /\ ndata(Val(gp)) > 0) =>
               (ret.exc = "" <=> hist.ok > 0)

C4_Witness ==
    /\ Ready /\ ret.op = "get_next" /\ ret.exc = ""
    /\ hist.ok > 0 /\ hist.calls > hist.ok
    /\ ndata(Val(gp)) > hist.ok

\* C5: an add_data call in which a collaborator fails, or whose acquisition
\* does not take the extra parameters, raises, having called each
\* collaborator at most once and none after the failing one, and leaves the
\* index that was held before the call; of the policy only the surrogate's
\* dataset can have changed.
C5_FailedAddKeepsIndex ==
    (Ready /\ ret.op = "add_data"
           /\ (ret.inj # "none" \/ ~(Keys(Val(extra)) \subseteq Params(Val(acq))))) =>
        /\ ret.exc # ""
        /\ index = ret.before
        /\ NoRepeat(ret.steps)
        /\ ret.inj # "none" => ret.steps[Len(ret.steps)] = StepOf(ret.inj)
        /\ bounds = hist.domain
        /\ Val(gp).hyper = BasicGP(50, 100, [j \in 1..Len(Val(bounds)) |->
                   (Val(bounds)[j][2] - Val(bounds)[j][1]) \div 10], "Matern3").hyper

C5_Witness ==
    /\ Ready /\ ret.op = "add_data" /\ ret.exc # ""
    /\ ret.inj = "acq"
    /\ ret.before # Set(None)
    /\ ndata(Val(gp)) = 2

\* C7: after an add_data call that returned, the held index has one member
\* and m = 1; 100 samples were drawn and the member is the configured
\* acquisition, with the extra parameters, on the surrogate's copy under the
\* last of them; the index's score is the member's score at every point.
C7_EnsembleOfLastSample ==
    (Ready /\ ret.op = "add_data" /\ ret.exc = "") =>
        LET idx == Val(index)
        IN  /\ Len(ret.hypers) = 100
            /\ idx.m = 1
            /\ Len(idx.acqs) = 1
            /\ idx.acqs[1].fn = Val(acq)
            /\ idx.acqs[1].gp = [Val(gp) EXCEPT !.hyper =
                                     Hyper(ret.hypers[100], Len(Val(bounds)))]
            /\ idx.acqs[1] \in Construct(Val(acq), idx.acqs[1].gp, Val(extra))
            /\ \A x \in Grid(Val(bounds)) :
                   index_call(idx, x) = Call(idx.acqs[1], idx.acqs[1].gp, x)

C7_Witness ==
    /\ Ready /\ ret.op = "add_data" /\ ret.exc = ""
    /\ ret.hypers[1] # ret.hypers[100]
    /\ Val(extra) # {}
    /\ ndata(Val(gp)) = 2

\* C9: a get_next() call on a surrogate with data that returns has called the
\* optimizer once, on the index built by the most recent add_data that
\* returned and on the domain given at construction; the objective's value at
\* the optimizer's point is minus the index there; get_next() returns that
\* point, and where the index is a number throughout the box no point of the
\* box scores higher.
C9_NextMaximizesLatestIndex ==
    (Ready /\ ret.op = "get_next" /\ ret.exc = "" /\ ndata(Val(gp)) > 0) =>
        /\ Len(ret.opt) = 1
        /\ ret.opt[1].index = Val(hist.built)
        /\ ret.opt[1].index = Val(index)
        /\ ret.opt[1].bounds = Val(hist.domain)
        /\ ret.val = ret.opt[1].out[1]
        /\ LET score == [p \in Grid(Val(hist.domain)) |->
                             index_call(Val(hist.built), p)]
           IN  \/ \E p \in DOMAIN score : score[p] = NaN
               \/ /\ ret.val \in DOMAIN score
                  /\ ret.opt[1].out[2] = -score[ret.val]
                  /\ \A p \in DOMAIN score : score[p] <= score[ret.val]

C9_Witness ==
    /\ Ready /\ ret.op = "get_next" /\ ret.exc = ""
    /\ hist.ok = 2 /\ hist.calls = 3
    /\ \A p \in Grid(Val(bounds)) : index_call(Val(index), p) # NaN
    /\ \E p \in Grid(Val(bounds)) :
           index_call(Val(index), p) < index_call(Val(index), ret.val)

-----------------------------------------------------------------------------
(* Properties of the policy shared by two threads. *)

\* the number of observations behind an index: those of its members' surrogate
DataBehind(i) == IF i = Set(None) THEN 0 ELSE ndata(Val(i).acqs[1].gp)

\* get_next() has read an ndata that the index it then read does not cover
Torn == ret.op = "get_next" /\ locG.seen # <<>> /\ DataBehind(locG.seen) < locG.nd

\* C10: add_data is two steps: as long as the thread in it is past the append
\* and before the assignment, the surrogate holds the new observation and the
\* policy the index from before the call; a get_next() that reads a dataset
\* its index does not cover ran while add_data was between the two, or after
\* add_data raised between the two.
C10_AppendThenAssign ==
    /\ pcA \in {"build", "assign"} =>
           /\ ndata(Val(gp)) = locA.n0 + 1
           /\ Data(Val(gp))[locA.n0 + 1] = <<locA.x, locA.y>>
           /\ index = locA.before
           /\ DataBehind(index) < ndata(Val(gp))
    /\ Torn => \/ locG.at \in {"build", "assign"}
               \/ locG.during \in {"build", "assign"}
               \/ ~Takes(Val(acq), Val(extra))

\* get_next() found ndata > 0 after the first observation and no index built
C10_Witness ==
    /\ Torn
    /\ locG.nd = 1
    /\ locG.seen = Set(None)
    /\ ret.exc = "TypeError"
    /\ locG.during \in {"build", "assign"}
    /\ Takes(Val(acq), Val(extra))

\* get_next() used the index of the first observation on a dataset of two
C10_TornOldIndex ==
    /\ Torn
    /\ locG.nd = 2
    /\ DataBehind(locG.seen) = 1
    /\ ret.exc = ""

=============================================================================
